---- MODULE Spec2Model ----
(***************************************************************************)
(* audio-time: audio time spans as Frames, Samples, Bytes and Duration,    *)
(* all relative to one System (sample rate, channel layout, sample type).  *)
(*                                                                         *)
(* The library is a family of pure functions over immutable values.  The   *)
(* state machine below is a client program bound to one System (the const  *)
(* generic SYS): it constructs a value, then applies conversions and       *)
(* multiplications to it, and records every call with its input and its    *)
(* outcome.                                                                *)
(*                                                                         *)
(* TLC's integers are 32 bits wide, so the 64-bit machine word (usize,     *)
(* u64) is scaled down: UsizeMax stands for usize::MAX and DurationMaxSecs *)
(* for the seconds of Duration::MAX.  The scaled word is wide enough for   *)
(* every count of the crate's tests and doc example (up to 176400, times   *)
(* 1000) to convert without overflow, as it does in the 64-bit word.  The  *)
(* u128 intermediate of duration_to_frames never overflows in the code and *)
(* is held in two parts, so it never overflows here either.                *)
(***************************************************************************)
EXTENDS Integers, Sequences, FiniteSets, TLC

VARIABLES sys, val, hist, sample_size_reading

vars == <<sys, val, hist, sample_size_reading>>

\* ------------------------------------------------------------------ bounds

\* usize::MAX (and u64::MAX: the code is cfg(target_pointer_width = "64")).
UsizeMax == 268435455

\* The seconds of Duration::MAX (u64::MAX in std): at every modelled sample
\* rate the frames of Duration::MAX exceed the word, as in the code.
DurationMaxSecs == 40000

\* How many conversions or multiplications follow one constructor.
MaxChain == 2

\* ------------------------------------------------------- Option and Result

Some(v) == <<"Some", v>>

is_some(o) == o[1] = "Some"

None == <<"None">>

Ok(v) == <<"Ok", v>>

\* Which outcome r is: "Ok", "Err", "None" or "Panic".
tag(r) == r[1]

\* The value inside Some(v) or Ok(v).
payload(r) == r[2]

\* Err(OverflowError(()))
Err == <<"Err">>

\* A constructor's None, as the outcome of a call.
Rejected == <<"None">>

\* The call aborted (a panic).
Panic == <<"Panic">>

\* Option::unwrap: the value, or a panic on None.
unwrap(o) == IF is_some(o) THEN Ok(payload(o)) ELSE Panic

\* usize::checked_mul: None when the product exceeds max.  The test divides, so that TLC never forms a product
\* beyond its own integers.
checked_mul(a, b, max) ==
    IF b # 0 /\ a > max \div b THEN None ELSE Some(a * b)

\* a * b modulo 2^w (w the word width), by doubling, so that no intermediate
\* exceeds twice the word.
RECURSIVE wrapping_mul(_, _)
wrapping_mul(a, b) ==
    IF b = 0 THEN 0
    ELSE LET h == wrapping_mul((2 * a) % (UsizeMax + 1), b \div 2)
         IN  (h + (IF b % 2 = 1 THEN a ELSE 0)) % (UsizeMax + 1)

\* ------------------------------------------------------------------ values

NoVal == <<"None">>

\* Which type a value has.
kind(x) == x[1]

\* Frames::get, Samples::get, Bytes::get (and the usize itself).
get(x) == x[2]

Usize(n) == <<"usize", n>>

Frames(n) == <<"Frames", n>>

Samples(n) == <<"Samples", n>>

Bytes(n) == <<"Bytes", n>>

\* std::time::Duration: whole seconds and the nanoseconds below one second.
Duration(secs, nanos) == <<"Duration", secs, nanos>>

\* Duration::as_secs
as_secs(d) == d[2]

\* Duration::subsec_nanos
subsec_nanos(d) == d[3]

\* Duration::as_millis
as_millis(d) == as_secs(d) * 1000 + subsec_nanos(d) \div 1000000

\* Duration::from_millis
from_millis(ms) == Duration(ms \div 1000, (ms % 1000) * 1000000)

DurationMAX == Duration(DurationMaxSecs, 999999999)

\* ------------------------------------------------------- format descriptor

\* impl_sample!(ty, id): the registered encodings, and size_of each.
SampleNames ==
    {"u8", "u16", "u32", "u64", "u128", "i8", "i16", "i32", "i64", "i128",
     "usize", "isize", "f32", "f64"}

TYPE_ID(ty) ==
    CASE ty = "u8" -> 0 [] ty = "u16" -> 1 [] ty = "u32" -> 2
      [] ty = "u64" -> 3 [] ty = "u128" -> 4 [] ty = "i8" -> 5
      [] ty = "i16" -> 6 [] ty = "i32" -> 7 [] ty = "i64" -> 8
      [] ty = "i128" -> 9 [] ty = "usize" -> 10 [] ty = "isize" -> 11
      [] ty = "f32" -> 12 [] ty = "f64" -> 13

size_of(ty) ==
    CASE ty \in {"u8", "i8"} -> 1
      [] ty \in {"u16", "i16"} -> 2
      [] ty \in {"u32", "i32", "f32"} -> 4
      [] ty \in {"u64", "i64", "usize", "isize", "f64"} -> 8
      [] ty \in {"u128", "i128"} -> 16

\* SampleType::new::<ty>()
SampleTypeNew(ty) == <<size_of(ty), TYPE_ID(ty)>>

\* SampleType::byte_depth
byte_depth(st) == st[1]

\* The sealed TypeId a SampleType carries (field _type).
type_id(st) == st[2]

\* A comparison of SampleType values by byte width alone.
SampleType_eq_byte_depth(a, b) == byte_depth(a) = byte_depth(b)

\* #[derive(PartialEq)] on SampleType: field by field, byte_depth and _type.
SampleType_eq(a, b) == byte_depth(a) = byte_depth(b) /\ type_id(a) = type_id(b)

\* ChannelLayout::channels
channels(layout) == CASE layout = "Mono" -> 1 [] layout = "Stereo" -> 2

\* system!(rate, layout, ty)
System(rate, layout, ty) == <<rate, layout, SampleTypeNew(ty)>>

\* SYS.sample_rate.get().get()
sample_rate_of(SYS) == SYS[1]

\* SYS.channel_layout
channel_layout_of(SYS) == SYS[2]

\* SYS.sample_type
sample_type_of(SYS) == SYS[3]

\* System::frame_size: channels * byte depth.  The checked_mul over u8 cannot
\* fail for the two layouts and the registered encodings (at most 2 * 16).
frame_size(SYS) ==
    payload(checked_mul(channels(channel_layout_of(SYS)),
                      byte_depth(sample_type_of(SYS)), 255))

\* System::sample_size, the divisor of a Bytes count.  Bytes::new calls it,
\* but no file of the crate defines it.  Its two possible meanings are both
\* kept: the bytes of one frame (the divisor the specification gives for
\* Bytes::new) and the bytes of one sample (bytes.rs: "the size of a single
\* sample").  Which one a behaviour has is fixed in its first state.
SampleSizeReadings == {"frame_size", "byte_depth"}

sample_size(SYS) ==
    IF sample_size_reading = "frame_size"
    THEN channels(channel_layout_of(SYS)) * byte_depth(sample_type_of(SYS))
    ELSE byte_depth(sample_type_of(SYS))

\* --------------------------------------------------------- quantity types

\* Samples::new
SamplesNew(SYS, n) ==
    LET rem == n % frame_size(SYS)
    IN  IF rem = 0 THEN Some(Samples(n)) ELSE None

\* Bytes::new
BytesNew(SYS, n) ==
    LET rem == n % sample_size(SYS)
    IN  IF rem = 0 THEN Some(Bytes(n)) ELSE None

\* Frames::new
FramesNew(SYS, n) == Frames(n)

\* ------------------------------------------------------ conversion engine

\* Frames <-> Bytes
bytes_to_frames(SYS, value) == FramesNew(SYS, get(value) \div frame_size(SYS))

frames_to_bytes(SYS, value) ==
    LET bytes == checked_mul(get(value), frame_size(SYS), UsizeMax)
    IN  IF is_some(bytes) THEN unwrap(BytesNew(SYS, payload(bytes))) ELSE Err

\* Frames <-> Samples
samples_to_frames(SYS, value) ==
    FramesNew(SYS, get(value) \div channels(channel_layout_of(SYS)))

frames_to_samples(SYS, value) ==
    LET bytes == checked_mul(get(value), channels(channel_layout_of(SYS)), UsizeMax)
    IN  IF is_some(bytes) THEN unwrap(SamplesNew(SYS, payload(bytes))) ELSE Err

\* Frames <-> Duration

\* u128::checked_mul of value.as_millis() and the sample rate.  as_millis()
\* is below 2^74 and the rate (a u32) below 2^32, so the product always fits
\* u128 and the result is always Some.  The product is wider than TLC's
\* integers, so it is held as <<product \div 1000, product % 1000>>.
u128_checked_mul(millis, sample_rate) ==
    LET secs == millis \div 1000
        sub == millis % 1000
    IN  Some(<<secs * sample_rate + (sub * sample_rate) \div 1000,
               (sub * sample_rate) % 1000>>)

\* frames / 1_000 on a u128 held in two parts.
u128_div_1000(product) == product[1]

\* duration_to_frames dividing by 1000 before it multiplies by the rate.
duration_to_frames_divide_first(SYS, value) ==
    LET sample_rate == sample_rate_of(SYS)
        frames == Some((as_millis(value) \div 1000) * sample_rate)
    IN  IF is_some(frames) /\ payload(frames) <= UsizeMax
        THEN Ok(FramesNew(SYS, payload(frames)))
        ELSE Err

duration_to_frames(SYS, value) ==
    LET sample_rate == sample_rate_of(SYS)
        product == u128_checked_mul(as_millis(value), sample_rate)
        frames == IF is_some(product) THEN Some(u128_div_1000(payload(product))) ELSE None
    IN  IF is_some(frames) /\ payload(frames) <= UsizeMax
        THEN Ok(FramesNew(SYS, payload(frames)))
        ELSE Err

\* frames_to_duration dividing by the rate before it multiplies by 1000.
frames_to_duration_divide_first(SYS, value) ==
    LET sample_rate == sample_rate_of(SYS)
        product == checked_mul(get(value) \div sample_rate, 1000, UsizeMax)
    IN  IF is_some(product) THEN Ok(from_millis(payload(product))) ELSE Err

\* frames_to_duration rounding the milliseconds up.
frames_to_duration_round_up(SYS, value) ==
    LET sample_rate == sample_rate_of(SYS)
        product == checked_mul(get(value), 1000, UsizeMax)
        millis == IF is_some(product)
                  THEN Some((payload(product) + sample_rate - 1) \div sample_rate)
                  ELSE None
    IN  IF is_some(millis) THEN Ok(from_millis(payload(millis))) ELSE Err

\* frames_to_duration reading the frame count as a sample count: the rate
\* of samples is the sample rate times the channels.
frames_to_duration_per_sample(SYS, value) ==
    LET sample_rate == sample_rate_of(SYS) * channels(channel_layout_of(SYS))
        product == checked_mul(get(value), 1000, UsizeMax)
        millis == IF is_some(product) THEN Some(payload(product) \div sample_rate) ELSE None
    IN  IF is_some(millis) THEN Ok(from_millis(payload(millis))) ELSE Err

frames_to_duration(SYS, value) ==
    LET sample_rate == sample_rate_of(SYS)
        product == checked_mul(get(value), 1000, UsizeMax)
        millis == IF is_some(product) THEN Some(payload(product) \div sample_rate) ELSE None
    IN  IF is_some(millis) THEN Ok(from_millis(payload(millis))) ELSE Err

\* Samples <-> Bytes
bytes_to_samples(SYS, value) ==
    unwrap(SamplesNew(SYS, get(value) \div byte_depth(sample_type_of(SYS))))

samples_to_bytes(SYS, value) ==
    LET bytes == checked_mul(get(value), byte_depth(sample_type_of(SYS)), UsizeMax)
    IN  IF is_some(bytes) THEN unwrap(BytesNew(SYS, payload(bytes))) ELSE Err

\* Samples <-> Duration (via Frames)
\* impl TryFrom<Duration> for Samples: Frames::try_from(value)?, then try_into.
duration_to_samples(SYS, value) ==
    LET frames == duration_to_frames(SYS, value)
    IN  IF tag(frames) = "Ok" THEN frames_to_samples(SYS, payload(frames)) ELSE frames

\* impl TryFrom<Samples> for Duration: Frames::from(value), then try_into.
samples_to_duration(SYS, value) ==
    LET frames == samples_to_frames(SYS, value)
    IN  frames_to_duration(SYS, frames)

\* Bytes <-> Duration (via Samples)
\* impl TryFrom<Duration> for Bytes: Samples::try_from(value)?, then try_into.
duration_to_bytes(SYS, value) ==
    LET samples == duration_to_samples(SYS, value)
    IN  IF tag(samples) = "Ok" THEN samples_to_bytes(SYS, payload(samples)) ELSE samples

\* impl TryFrom<Bytes> for Duration: Samples::from(value), then try_into.
bytes_to_duration(SYS, value) ==
    LET samples == bytes_to_samples(SYS, value)
    IN  IF tag(samples) = "Ok" THEN samples_to_duration(SYS, payload(samples)) ELSE samples

\* usize * usize, as the operator `*` (usize::mul): on overflow a debug build
\* panics and a release build wraps, so both outcomes are possible.
usize_mul(a, b) ==
    LET p == checked_mul(a, b, UsizeMax)
    IN  IF is_some(p) THEN {Ok(payload(p))} ELSE {Panic, Ok(wrapping_mul(a, b))}

\* impl Mul for Samples, impl Mul<T> for Samples (T = usize): the raw product,
\* validated again by Samples::new(..).unwrap().
samples_mul(SYS, self, rhs) ==
    {IF tag(p) = "Ok" THEN unwrap(SamplesNew(SYS, payload(p))) ELSE p :
        p \in usize_mul(get(self), rhs)}

\* usize / usize, as the operator `/` (usize::div): a zero divisor panics
\* ("attempt to divide by zero") in every build.
usize_div(a, b) == IF b = 0 THEN {Panic} ELSE {Ok(a \div b)}

\* impl Mul for Frames, impl Mul<T> for Frames (T = usize): the raw product,
\* wrapped in Frames::new, which accepts every count.
frames_mul(SYS, self, rhs) ==
    {IF tag(p) = "Ok" THEN Ok(FramesNew(SYS, payload(p))) ELSE p :
        p \in usize_mul(get(self), rhs)}

\* impl Div for Frames, impl Div<T> for Frames (T = usize): the raw quotient,
\* wrapped in Frames::new.
frames_div(SYS, self, rhs) ==
    {IF tag(q) = "Ok" THEN Ok(FramesNew(SYS, payload(q))) ELSE q :
        q \in usize_div(get(self), rhs)}

\* ----------------------------------------------------------------- inputs

SampleRates == {8000, 44100, 48000}

ChannelLayouts == {"Mono", "Stereo"}

\* The encodings the client programs are instantiated with.
SampleTypesUsed == {"u8", "i16", "f32", "f64"}

Systems ==
    {System(r, l, t) : r \in SampleRates, l \in ChannelLayouts, t \in SampleTypesUsed}

FrameInputs ==
    {0, 1, 2, 3, 6, 7, 47, 48, 800, 1000, 2000, 44100, 88200,
     UsizeMax \div 1000, UsizeMax \div 1000 + 1,
     UsizeMax \div 2, UsizeMax \div 2 + 1, UsizeMax}

\* Counts given to Samples::new: small ones, the counts of the doc example,
\* and counts at the end of the word.
SampleInputs ==
    {0, 1, 2, 3, 4, 6, 8, 12, 16, 96, 8000, 88200,
     UsizeMax \div 2 + 1, UsizeMax - 15, UsizeMax - 1, UsizeMax}

\* Counts given to Bytes::new.
ByteInputs ==
    {0, 1, 2, 3, 4, 6, 8, 12, 16, 96, 2000, 16000, 176400,
     UsizeMax \div 2 + 1, UsizeMax - 15, UsizeMax - 1, UsizeMax}

DurationInputs ==
    {Duration(0, 0), Duration(0, 999999), Duration(0, 1000000),
     Duration(0, 1500000), Duration(0, 100000000), Duration(1, 0),
     Duration(2, 0), Duration(5, 592000000), DurationMAX}

MulInputs == {0, 1, 2, UsizeMax \div 2 + 1, UsizeMax}

\* Right-hand sides of a Frames multiplication: one that doubles, and one
\* that overflows the word for every count above 1.
FrameMulInputs == {2, UsizeMax}

\* Divisors of a Frames division: zero, and one that halves.
DivInputs == {0, 2}

\* ----------------------------------------------------------------- state

\* One recorded call: the operation, its input, its right-hand side (Mul
\* only) and its outcome.
Call(op, in, arg, out) == <<op, in, arg, out>>

op_of(c) == c[1]

in_of(c) == c[2]

arg_of(c) == c[3]

out_of(c) == c[4]

Last == hist[Len(hist)]

Aborted == hist # <<>> /\ tag(out_of(Last)) = "Panic"

Init ==
    /\ sys \in Systems
    /\ sample_size_reading \in SampleSizeReadings
    /\ val = NoVal
    /\ hist = <<>>

\* A constructor starts the chain: the program's first call.
Start(op, in, out) ==
    /\ hist = <<>>
    /\ hist' = <<Call(op, in, NoVal, out)>>
    /\ val' = IF tag(out) = "Ok" THEN payload(out) ELSE NoVal
    /\ UNCHANGED <<sys, sample_size_reading>>

\* A conversion or multiplication of the current value.  On Err the input,
\* being Copy, is still there; after a panic nothing runs.
Apply(op, arg, out) ==
    /\ ~Aborted
    /\ Len(hist) <= MaxChain
    /\ hist' = Append(hist, Call(op, val, arg, out))
    /\ val' = IF tag(out) = "Ok" THEN payload(out) ELSE val
    /\ UNCHANGED <<sys, sample_size_reading>>

NewFrames == \E n \in FrameInputs : Start("Frames::new", Usize(n), Ok(FramesNew(sys, n)))

NewSamples ==
    \E n \in SampleInputs :
        LET o == SamplesNew(sys, n)
        IN  Start("Samples::new", Usize(n), IF is_some(o) THEN Ok(payload(o)) ELSE Rejected)

NewBytes ==
    \E n \in ByteInputs :
        LET o == BytesNew(sys, n)
        IN  Start("Bytes::new", Usize(n), IF is_some(o) THEN Ok(payload(o)) ELSE Rejected)

NewDuration == \E d \in DurationInputs : Start("Duration::new", d, Ok(d))

\* SampleType::new::<A>() == SampleType::new::<B>() for two registered
\* encodings; the program holds the boolean.
SampleTypeEq ==
    \E A \in SampleNames, B \in SampleNames :
        Start("SampleType::eq", <<"SampleTypes", A, B>>,
              Ok(<<"bool", SampleType_eq(SampleTypeNew(A), SampleTypeNew(B))>>))

FramesFromBytes ==
    /\ kind(val) = "Bytes"
    /\ Apply("Frames::from(Bytes)", NoVal, Ok(bytes_to_frames(sys, val)))

BytesTryFromFrames ==
    /\ kind(val) = "Frames"
    /\ Apply("Bytes::try_from(Frames)", NoVal, frames_to_bytes(sys, val))

FramesFromSamples ==
    /\ kind(val) = "Samples"
    /\ Apply("Frames::from(Samples)", NoVal, Ok(samples_to_frames(sys, val)))

SamplesTryFromFrames ==
    /\ kind(val) = "Frames"
    /\ Apply("Samples::try_from(Frames)", NoVal, frames_to_samples(sys, val))

FramesTryFromDuration ==
    /\ kind(val) = "Duration"
    /\ Apply("Frames::try_from(Duration)", NoVal, duration_to_frames(sys, val))

DurationTryFromFrames ==
    /\ kind(val) = "Frames"
    /\ Apply("Duration::try_from(Frames)", NoVal, frames_to_duration(sys, val))

SamplesFromBytes ==
    /\ kind(val) = "Bytes"
    /\ Apply("Samples::from(Bytes)", NoVal, bytes_to_samples(sys, val))

BytesTryFromSamples ==
    /\ kind(val) = "Samples"
    /\ Apply("Bytes::try_from(Samples)", NoVal, samples_to_bytes(sys, val))

SamplesTryFromDuration ==
    /\ kind(val) = "Duration"
    /\ Apply("Samples::try_from(Duration)", NoVal, duration_to_samples(sys, val))

DurationTryFromSamples ==
    /\ kind(val) = "Samples"
    /\ Apply("Duration::try_from(Samples)", NoVal, samples_to_duration(sys, val))

BytesTryFromDuration ==
    /\ kind(val) = "Duration"
    /\ Apply("Bytes::try_from(Duration)", NoVal, duration_to_bytes(sys, val))

DurationTryFromBytes ==
    /\ kind(val) = "Bytes"
    /\ Apply("Duration::try_from(Bytes)", NoVal, bytes_to_duration(sys, val))

\* samples * rhs, rhs another Samples of the same System.
SamplesMulSamples ==
    /\ kind(val) = "Samples"
    /\ \E n \in MulInputs :
        /\ is_some(SamplesNew(sys, n))
        /\ \E out \in samples_mul(sys, val, n) :
            Apply("Samples * Samples", Samples(n), out)

\* samples * rhs, rhs a usize.
SamplesMulScalar ==
    /\ kind(val) = "Samples"
    /\ \E k \in MulInputs :
        \E out \in samples_mul(sys, val, k) :
            Apply("Samples * usize", Usize(k), out)

\* frames * rhs, rhs another Frames of the same System.
FramesMulFrames ==
    /\ kind(val) = "Frames"
    /\ \E n \in FrameMulInputs :
        \E out \in frames_mul(sys, val, n) :
            Apply("Frames * Frames", FramesNew(sys, n), out)

\* frames * rhs, rhs a usize.
FramesMulScalar ==
    /\ kind(val) = "Frames"
    /\ \E k \in FrameMulInputs :
        \E out \in frames_mul(sys, val, k) :
            Apply("Frames * usize", Usize(k), out)

\* frames / rhs, rhs another Frames of the same System.
FramesDivFrames ==
    /\ kind(val) = "Frames"
    /\ \E n \in DivInputs :
        \E out \in frames_div(sys, val, n) :
            Apply("Frames / Frames", FramesNew(sys, n), out)

\* frames / rhs, rhs a usize.
FramesDivScalar ==
    /\ kind(val) = "Frames"
    /\ \E k \in DivInputs :
        \E out \in frames_div(sys, val, k) :
            Apply("Frames / usize", Usize(k), out)

Next ==
    \/ NewFrames
    \/ SampleTypeEq
    \/ NewSamples
    \/ NewBytes
    \/ NewDuration
    \/ FramesFromBytes
    \/ BytesTryFromFrames
    \/ FramesFromSamples
    \/ SamplesTryFromFrames
    \/ FramesTryFromDuration
    \/ DurationTryFromFrames
    \/ SamplesFromBytes
    \/ BytesTryFromSamples
    \/ SamplesTryFromDuration
    \/ DurationTryFromSamples
    \/ BytesTryFromDuration
    \/ DurationTryFromBytes
    \/ SamplesMulSamples
    \/ SamplesMulScalar
    \/ FramesMulFrames
    \/ FramesMulScalar
    \/ FramesDivFrames
    \/ FramesDivScalar

Spec == Init /\ [][Next]_vars

\* ------------------------------------------------------- convenience tier

\* match r { Ok(x) => x, Err(_) => panic!("Overflowed trying to convert ..") }:
\* the value, or an abort; an abort inside the conversion stays an abort.
or_panic(r) == IF tag(r) = "Ok" THEN r ELSE Panic

\* Frames::into_duration
Frames_into_duration(SYS, self) == or_panic(frames_to_duration(SYS, self))

\* Frames::from_duration
Frames_from_duration(SYS, dur) == or_panic(duration_to_frames(SYS, dur))

\* Frames::into_bytes
Frames_into_bytes(SYS, self) == or_panic(frames_to_bytes(SYS, self))

\* Frames::from_bytes
Frames_from_bytes(SYS, bytes) == Ok(bytes_to_frames(SYS, bytes))

\* Frames::into_samples
Frames_into_samples(SYS, self) == or_panic(frames_to_samples(SYS, self))

\* Frames::from_samples
Frames_from_samples(SYS, samples) == Ok(samples_to_frames(SYS, samples))

\* Samples::into_duration
Samples_into_duration(SYS, self) == or_panic(samples_to_duration(SYS, self))

\* Samples::from_duration
Samples_from_duration(SYS, dur) == or_panic(duration_to_samples(SYS, dur))

\* Samples::into_bytes
Samples_into_bytes(SYS, self) == or_panic(samples_to_bytes(SYS, self))

\* Samples::from_bytes
Samples_from_bytes(SYS, bytes) == bytes_to_samples(SYS, bytes)

\* Samples::into_frames
Samples_into_frames(SYS, self) == Ok(samples_to_frames(SYS, self))

\* Samples::from_frames
Samples_from_frames(SYS, frames) == or_panic(frames_to_samples(SYS, frames))

\* Bytes::into_duration
Bytes_into_duration(SYS, self) == or_panic(bytes_to_duration(SYS, self))

\* Bytes::from_duration
Bytes_from_duration(SYS, dur) == or_panic(duration_to_bytes(SYS, dur))

\* Bytes::into_samples
Bytes_into_samples(SYS, self) == bytes_to_samples(SYS, self)

\* Bytes::from_samples
Bytes_from_samples(SYS, samples) == or_panic(samples_to_bytes(SYS, samples))

CallFramesIntoDuration ==
    /\ kind(val) = "Frames"
    /\ Apply("Frames::into_duration", NoVal, Frames_into_duration(sys, val))

CallFramesFromDuration ==
    /\ kind(val) = "Duration"
    /\ Apply("Frames::from_duration", NoVal, Frames_from_duration(sys, val))

CallFramesIntoBytes ==
    /\ kind(val) = "Frames"
    /\ Apply("Frames::into_bytes", NoVal, Frames_into_bytes(sys, val))

CallFramesFromBytes ==
    /\ kind(val) = "Bytes"
    /\ Apply("Frames::from_bytes", NoVal, Frames_from_bytes(sys, val))

CallFramesIntoSamples ==
    /\ kind(val) = "Frames"
    /\ Apply("Frames::into_samples", NoVal, Frames_into_samples(sys, val))

CallFramesFromSamples ==
    /\ kind(val) = "Samples"
    /\ Apply("Frames::from_samples", NoVal, Frames_from_samples(sys, val))

CallSamplesIntoDuration ==
    /\ kind(val) = "Samples"
    /\ Apply("Samples::into_duration", NoVal, Samples_into_duration(sys, val))

CallSamplesFromDuration ==
    /\ kind(val) = "Duration"
    /\ Apply("Samples::from_duration", NoVal, Samples_from_duration(sys, val))

CallSamplesIntoBytes ==
    /\ kind(val) = "Samples"
    /\ Apply("Samples::into_bytes", NoVal, Samples_into_bytes(sys, val))

CallSamplesFromBytes ==
    /\ kind(val) = "Bytes"
    /\ Apply("Samples::from_bytes", NoVal, Samples_from_bytes(sys, val))

CallSamplesIntoFrames ==
    /\ kind(val) = "Samples"
    /\ Apply("Samples::into_frames", NoVal, Samples_into_frames(sys, val))

CallSamplesFromFrames ==
    /\ kind(val) = "Frames"
    /\ Apply("Samples::from_frames", NoVal, Samples_from_frames(sys, val))

CallBytesIntoDuration ==
    /\ kind(val) = "Bytes"
    /\ Apply("Bytes::into_duration", NoVal, Bytes_into_duration(sys, val))

CallBytesFromDuration ==
    /\ kind(val) = "Duration"
    /\ Apply("Bytes::from_duration", NoVal, Bytes_from_duration(sys, val))

CallBytesIntoSamples ==
    /\ kind(val) = "Bytes"
    /\ Apply("Bytes::into_samples", NoVal, Bytes_into_samples(sys, val))

CallBytesFromSamples ==
    /\ kind(val) = "Samples"
    /\ Apply("Bytes::from_samples", NoVal, Bytes_from_samples(sys, val))

\* A client program that uses the convenience tier alone.
NextTiers ==
    \/ NewFrames
    \/ NewSamples
    \/ NewBytes
    \/ NewDuration
    \/ CallFramesIntoDuration
    \/ CallFramesFromDuration
    \/ CallFramesIntoBytes
    \/ CallFramesFromBytes
    \/ CallFramesIntoSamples
    \/ CallFramesFromSamples
    \/ CallSamplesIntoDuration
    \/ CallSamplesFromDuration
    \/ CallSamplesIntoBytes
    \/ CallSamplesFromBytes
    \/ CallSamplesIntoFrames
    \/ CallSamplesFromFrames
    \/ CallBytesIntoDuration
    \/ CallBytesFromDuration
    \/ CallBytesIntoSamples
    \/ CallBytesFromSamples

SpecTiers == Init /\ [][NextTiers]_vars

\* ----------------------------------------------------------------- claims

Rate == sample_rate_of(sys)

Channels == channels(channel_layout_of(sys))

ByteDepth == byte_depth(sample_type_of(sys))

\* a * b fits the machine word.
Fits(a, b) == b = 0 \/ a <= UsizeMax \div b

\* C1: Samples::new(n) returns a Samples value iff n is divisible by the
\* System's channel count, and None (no abort) otherwise.
C1_SamplesNewIffChannels ==
    \A i \in DOMAIN hist :
        op_of(hist[i]) = "Samples::new" =>
            IF get(in_of(hist[i])) % Channels = 0
            THEN out_of(hist[i]) = Ok(Samples(get(in_of(hist[i]))))
            ELSE out_of(hist[i]) = Rejected

\* C2: Bytes::new(n) returns a Bytes value iff n is divisible by the frame
\* size (channels * sample byte width), and None otherwise.  The divisor is
\* System::sample_size: the statement holds when that is the frame size and
\* fails (Stereo, Bytes::new of one sample's bytes) when it is the byte depth.
C2_BytesNewIffFrameSize ==
    \A i \in DOMAIN hist :
        op_of(hist[i]) = "Bytes::new" =>
            IF get(in_of(hist[i])) % (Channels * ByteDepth) = 0
            THEN out_of(hist[i]) = Ok(Bytes(get(in_of(hist[i]))))
            ELSE out_of(hist[i]) = Rejected

\* Every value the program holds or has held.
AllValues ==
    {val} \cup {in_of(hist[i]) : i \in DOMAIN hist}
          \cup {arg_of(hist[i]) : i \in DOMAIN hist}
          \cup {payload(out_of(hist[i])) : i \in {j \in DOMAIN hist : tag(out_of(hist[j])) = "Ok"}}

\* C3: after any sequence of constructors, conversions and multiplications,
\* every Samples count is a multiple of the channel count and every Bytes
\* count is a multiple of the frame size.  The Samples half holds; the Bytes
\* half stands or falls with the meaning of System::sample_size, as C2 does.
C3_Divisibility ==
    \A v \in AllValues :
        /\ kind(v) = "Samples" => get(v) % Channels = 0
        /\ kind(v) = "Bytes" => get(v) % (Channels * ByteDepth) = 0

CheckedOps ==
    {"Bytes::try_from(Frames)", "Samples::try_from(Frames)",
     "Frames::try_from(Duration)", "Duration::try_from(Frames)",
     "Bytes::try_from(Samples)", "Samples::try_from(Duration)",
     "Duration::try_from(Samples)", "Bytes::try_from(Duration)",
     "Duration::try_from(Bytes)"}

\* The factor of a unit-expanding conversion.
Factor(op) ==
    CASE op = "Bytes::try_from(Frames)" -> Channels * ByteDepth
      [] op = "Samples::try_from(Frames)" -> Channels
      [] op = "Bytes::try_from(Samples)" -> ByteDepth

\* C4: every checked (TryFrom) conversion returns a converted value or the
\* Overflow error; it never aborts and never returns a wrapped value.
C4_CheckedNeverAborts ==
    \A i \in DOMAIN hist :
        op_of(hist[i]) \in CheckedOps =>
            /\ tag(out_of(hist[i])) \in {"Ok", "Err"}
            /\ (/\ tag(out_of(hist[i])) = "Ok"
                /\ op_of(hist[i]) \in {"Bytes::try_from(Frames)",
                                   "Samples::try_from(Frames)",
                                   "Bytes::try_from(Samples)"})
               => /\ Fits(get(in_of(hist[i])), Factor(op_of(hist[i])))
                  /\ get(payload(out_of(hist[i]))) = get(in_of(hist[i])) * Factor(op_of(hist[i]))

\* C5: for Frames f whose product does not overflow, Frames -> Bytes ->
\* Frames returns f, and Frames -> Samples -> Frames returns f.
C5_RoundTripExact ==
    \A i \in DOMAIN hist :
        /\ (op_of(hist[i]) = "Bytes::try_from(Frames)"
            /\ Fits(get(in_of(hist[i])), Channels * ByteDepth))
           => /\ tag(out_of(hist[i])) = "Ok"
              /\ (i + 1 \in DOMAIN hist /\ op_of(hist[i + 1]) = "Frames::from(Bytes)")
                 => out_of(hist[i + 1]) = Ok(in_of(hist[i]))
        /\ (op_of(hist[i]) = "Samples::try_from(Frames)"
            /\ Fits(get(in_of(hist[i])), Channels))
           => /\ tag(out_of(hist[i])) = "Ok"
              /\ (i + 1 \in DOMAIN hist /\ op_of(hist[i + 1]) = "Frames::from(Samples)")
                 => out_of(hist[i + 1]) = Ok(in_of(hist[i]))

\* C6: for Frames f (no overflow), Frames -> Samples -> Bytes yields the
\* Bytes value that Frames -> Bytes yields directly.
C6_PathsAgree ==
    \A i \in DOMAIN hist :
        (op_of(hist[i]) = "Samples::try_from(Frames)"
         /\ Fits(get(in_of(hist[i])), Channels * ByteDepth))
        => /\ tag(out_of(hist[i])) = "Ok"
           /\ (i + 1 \in DOMAIN hist /\ op_of(hist[i + 1]) = "Bytes::try_from(Samples)")
              => out_of(hist[i + 1]) = frames_to_bytes(sys, in_of(hist[i]))

\* d is exactly ms milliseconds.
IsMillis(d, ms) ==
    /\ kind(d) = "Duration"
    /\ subsec_nanos(d) < 1000000000
    /\ subsec_nanos(d) % 1000000 = 0
    /\ as_secs(d) * 1000 + subsec_nanos(d) \div 1000000 = ms

\* C7: Duration::try_from(Frames f) is floor(f * 1000 / sample_rate)
\* milliseconds when f * 1000 fits the machine word and the Overflow error
\* otherwise; Frames(usize::MAX) overflows at every sample rate.
C7_FramesToDuration ==
    \A i \in DOMAIN hist :
        op_of(hist[i]) = "Duration::try_from(Frames)" =>
            /\ IF get(in_of(hist[i])) <= UsizeMax \div 1000
               THEN /\ tag(out_of(hist[i])) = "Ok"
                    /\ IsMillis(payload(out_of(hist[i])), (get(in_of(hist[i])) * 1000) \div Rate)
               ELSE out_of(hist[i]) = Err
            /\ get(in_of(hist[i])) = UsizeMax => out_of(hist[i]) = Err

\* 48 frames at 48000 Hz have become one millisecond.
C7_Witness ==
    /\ hist # <<>>
    /\ op_of(Last) = "Duration::try_from(Frames)"
    /\ Rate = 48000
    /\ get(in_of(Last)) = 48
    /\ out_of(Last) = Ok(Duration(0, 1000000))

\* floor(d.as_millis() * sample_rate / 1000), the seconds and the
\* milliseconds below one second scaled apart.
FrameCount(d) ==
    as_secs(d) * Rate + ((subsec_nanos(d) \div 1000000) * Rate) \div 1000

\* C8: Frames::try_from(Duration d) is floor(d.as_millis() * sample_rate /
\* 1000), the part of d below one millisecond ignored, when that count fits
\* the machine word, and the Overflow error otherwise; Duration::MAX at
\* 8000 Hz overflows.
C8_DurationToFrames ==
    \A i \in DOMAIN hist :
        op_of(hist[i]) = "Frames::try_from(Duration)" =>
            /\ IF FrameCount(in_of(hist[i])) <= UsizeMax
               THEN out_of(hist[i]) = Ok(Frames(FrameCount(in_of(hist[i]))))
               ELSE out_of(hist[i]) = Err
            /\ (in_of(hist[i]) = DurationMAX /\ Rate = 8000) => out_of(hist[i]) = Err

\* 1.5 ms at 48000 Hz has become 48 frames, its half millisecond dropped.
C8_Witness ==
    /\ hist # <<>>
    /\ op_of(Last) = "Frames::try_from(Duration)"
    /\ Rate = 48000
    /\ in_of(Last) = Duration(0, 1500000)
    /\ out_of(Last) = Ok(Frames(48))

\* Calls i and i + 1 are the conversions first and then, both returning a
\* value.
RoundTrip(i, first, then) ==
    /\ i + 1 \in DOMAIN hist
    /\ op_of(hist[i]) = first
    /\ op_of(hist[i + 1]) = then
    /\ tag(out_of(hist[i])) = "Ok"
    /\ tag(out_of(hist[i + 1])) = "Ok"

\* Frames f -> Duration -> Frames r: r <= f, r = f when f * 1000 is a
\* multiple of the sample rate, r < f for a sub-millisecond count.
FramesRoundTrip(i) ==
    RoundTrip(i, "Duration::try_from(Frames)", "Frames::try_from(Duration)") =>
        LET f == get(in_of(hist[i]))
            r == get(payload(out_of(hist[i + 1])))
        IN  /\ r <= f
            /\ (f * 1000) % Rate = 0 => r = f
            /\ (0 < f /\ f * 1000 < Rate) => r < f

\* d is a whole number of milliseconds.
WholeMillis(d) == subsec_nanos(d) % 1000000 = 0

\* C9 as stated: Frames -> Duration -> Frames is lossy only downward, and
\* every whole-millisecond Duration survives Duration -> Frames -> Duration.
C9_WholeMillisSurvive ==
    \A i \in DOMAIN hist :
        /\ FramesRoundTrip(i)
        /\ (/\ RoundTrip(i, "Frames::try_from(Duration)", "Duration::try_from(Frames)")
            /\ WholeMillis(in_of(hist[i])))
           => payload(out_of(hist[i + 1])) = in_of(hist[i])

\* C9 amended: Frames -> Duration -> Frames is lossy only downward; a
\* whole-millisecond Duration d survives Duration -> Frames -> Duration
\* when d.as_millis() * sample_rate is a multiple of 1000, and otherwise
\* comes back as fewer milliseconds.
C9_DurationRoundTrip ==
    \A i \in DOMAIN hist :
        /\ FramesRoundTrip(i)
        /\ (/\ RoundTrip(i, "Frames::try_from(Duration)", "Duration::try_from(Frames)")
            /\ WholeMillis(in_of(hist[i])))
           => IF (as_millis(in_of(hist[i])) * Rate) % 1000 = 0
              THEN payload(out_of(hist[i + 1])) = in_of(hist[i])
              ELSE /\ WholeMillis(payload(out_of(hist[i + 1])))
                   /\ as_millis(payload(out_of(hist[i + 1]))) < as_millis(in_of(hist[i]))

\* 47 frames at 48000 Hz have become 0 ms and then 0 frames.
C9_Witness ==
    /\ Len(hist) = 3
    /\ Rate = 48000
    /\ op_of(hist[2]) = "Duration::try_from(Frames)"
    /\ in_of(hist[2]) = Frames(47)
    /\ out_of(hist[2]) = Ok(Duration(0, 0))
    /\ op_of(hist[3]) = "Frames::try_from(Duration)"
    /\ out_of(hist[3]) = Ok(Frames(0))

\* C10: in a Mono System, Frames -> Samples succeeds for every f with the
\* same count, and Samples -> Frames preserves the count.
C10_MonoSameCount ==
    \A i \in DOMAIN hist :
        channel_layout_of(sys) = "Mono" =>
            /\ op_of(hist[i]) = "Samples::try_from(Frames)"
               => out_of(hist[i]) = Ok(Samples(get(in_of(hist[i]))))
            /\ op_of(hist[i]) = "Frames::from(Samples)"
               => out_of(hist[i]) = Ok(Frames(get(in_of(hist[i]))))

\* The checked-tier conversion that a convenience method wraps, applied to
\* the same input.
CheckedTier(op, in) ==
    CASE op = "Frames::into_duration" -> frames_to_duration(sys, in)
      [] op = "Frames::from_duration" -> duration_to_frames(sys, in)
      [] op = "Frames::into_bytes" -> frames_to_bytes(sys, in)
      [] op = "Frames::from_bytes" -> Ok(bytes_to_frames(sys, in))
      [] op = "Frames::into_samples" -> frames_to_samples(sys, in)
      [] op = "Frames::from_samples" -> Ok(samples_to_frames(sys, in))
      [] op = "Samples::into_duration" -> samples_to_duration(sys, in)
      [] op = "Samples::from_duration" -> duration_to_samples(sys, in)
      [] op = "Samples::into_bytes" -> samples_to_bytes(sys, in)
      [] op = "Samples::from_bytes" -> bytes_to_samples(sys, in)
      [] op = "Samples::into_frames" -> Ok(samples_to_frames(sys, in))
      [] op = "Samples::from_frames" -> frames_to_samples(sys, in)
      [] op = "Bytes::into_duration" -> bytes_to_duration(sys, in)
      [] op = "Bytes::from_duration" -> duration_to_bytes(sys, in)
      [] op = "Bytes::into_samples" -> bytes_to_samples(sys, in)
      [] op = "Bytes::from_samples" -> samples_to_bytes(sys, in)

ConvenienceOps ==
    {"Frames::into_duration", "Frames::from_duration", "Frames::into_bytes",
     "Frames::from_bytes", "Frames::into_samples", "Frames::from_samples",
     "Samples::into_duration", "Samples::from_duration", "Samples::into_bytes",
     "Samples::from_bytes", "Samples::into_frames", "Samples::from_frames",
     "Bytes::into_duration", "Bytes::from_duration", "Bytes::into_samples",
     "Bytes::from_samples"}

\* C11: each convenience conversion returns the value of the checked
\* conversion whenever that returns a value, and aborts exactly when the
\* checked conversion returns the Overflow error.
C11_ConvenienceIsCheckedPlusAbort ==
    \A i \in DOMAIN hist :
        op_of(hist[i]) \in ConvenienceOps =>
            LET checked == CheckedTier(op_of(hist[i]), in_of(hist[i]))
            IN  /\ tag(checked) = "Ok" => out_of(hist[i]) = checked
                /\ out_of(hist[i]) = Panic <=> checked = Err

\* C12: SampleType::new::<A>() equals SampleType::new::<B>() if and only if
\* A and B are the same registered encoding, whatever their byte widths.
C12_SampleTypeIdentity ==
    \A i \in DOMAIN hist :
        op_of(hist[i]) = "SampleType::eq" =>
            LET A == in_of(hist[i])[2]
                B == in_of(hist[i])[3]
            IN  out_of(hist[i]) = Ok(<<"bool", A = B>>)

\* Two different encodings of equal byte width were compared, and compared
\* unequal.
C12_Witness ==
    /\ hist # <<>>
    /\ op_of(Last) = "SampleType::eq"
    /\ in_of(Last)[2] # in_of(Last)[3]
    /\ size_of(in_of(Last)[2]) = size_of(in_of(Last)[3])
    /\ out_of(Last) = Ok(<<"bool", FALSE>>)

\* The quantity a unit-expanding conversion builds.
Expanded(op, n) ==
    IF op = "Samples::try_from(Frames)" THEN Samples(n) ELSE Bytes(n)

\* C13: Frames -> Bytes returns exactly f * frame_size, Frames -> Samples
\* exactly f * channels and Samples -> Bytes exactly s * byte width whenever
\* the product fits the machine word, and each returns the Overflow error
\* exactly when it does not fit.
C13_ExpansionsChecked ==
    \A i \in DOMAIN hist :
        op_of(hist[i]) \in {"Bytes::try_from(Frames)", "Samples::try_from(Frames)",
                           "Bytes::try_from(Samples)"} =>
            LET n == get(in_of(hist[i]))
                k == Factor(op_of(hist[i]))
            IN  IF Fits(n, k)
                THEN out_of(hist[i]) = Ok(Expanded(op_of(hist[i]), n * k))
                ELSE out_of(hist[i]) = Err

\* Frames::try_from(d) followed by a conversion of the Frames.
ThroughFrames(d, then(_, _)) ==
    LET frames == duration_to_frames(sys, d)
    IN  IF tag(frames) = "Ok" THEN then(sys, payload(frames)) ELSE frames

\* The outcome of a Duration conversion of Samples or Bytes when it is
\* composed through Frames.
Composed(op, in) ==
    CASE op = "Duration::try_from(Samples)"
            -> frames_to_duration(sys, samples_to_frames(sys, in))
      [] op = "Duration::try_from(Bytes)"
            -> frames_to_duration(sys, bytes_to_frames(sys, in))
      [] op = "Samples::try_from(Duration)" -> ThroughFrames(in, frames_to_samples)
      [] op = "Bytes::try_from(Duration)" -> ThroughFrames(in, frames_to_bytes)

\* C14: Duration::try_from(Samples) and Duration::try_from(Bytes) give the
\* outcome of converting to Frames and then Frames -> Duration, and
\* Samples::try_from(Duration) / Bytes::try_from(Duration) give the outcome
\* of Frames::try_from(Duration) followed by Frames -> Samples / Bytes.
C14_ComposedThroughFrames ==
    \A i \in DOMAIN hist :
        op_of(hist[i]) \in {"Duration::try_from(Samples)", "Duration::try_from(Bytes)",
                           "Samples::try_from(Duration)", "Bytes::try_from(Duration)"}
        => out_of(hist[i]) = Composed(op_of(hist[i]), in_of(hist[i]))

\* The Systems that agree with the current one on the sample rate: every
\* channel layout and every registered encoding.
SameRate == {System(Rate, l, t) : l \in ChannelLayouts, t \in SampleNames}

\* The Systems that agree with the current one on channel layout and sample
\* type: every sample rate.
SameFrame == {<<r, channel_layout_of(sys), sample_type_of(sys)>> : r \in SampleRates}

\* C15: Frames -> Duration and Duration -> Frames give the same outcome in
\* every System of the same sample rate, whatever its channel layout and
\* sample type; Frames -> Bytes and Bytes -> Frames give the same outcome in
\* every System of the same layout and sample type, whatever its sample rate.
C15_DependsOnlyOnFactsUsed ==
    \A i \in DOMAIN hist :
        LET op == op_of(hist[i])
            in == in_of(hist[i])
            out == out_of(hist[i])
        IN  /\ op = "Duration::try_from(Frames)"
               => \A other \in SameRate : frames_to_duration(other, in) = out
            /\ op = "Frames::try_from(Duration)"
               => \A other \in SameRate : duration_to_frames(other, in) = out
            /\ op = "Bytes::try_from(Frames)"
               => \A other \in SameFrame : frames_to_bytes(other, in) = out
            /\ op = "Frames::from(Bytes)"
               => \A other \in SameFrame : Ok(bytes_to_frames(other, in)) = out

\* In a Stereo System of a wide sample type, a Frames -> Duration conversion
\* returned a Duration that is not zero.
C15_Witness ==
    /\ hist # <<>>
    /\ op_of(Last) = "Duration::try_from(Frames)"
    /\ tag(out_of(Last)) = "Ok"
    /\ as_millis(payload(out_of(Last))) > 0
    /\ Channels = 2
    /\ ByteDepth = 8

====
